---- MODULE Spec2Model ----
(***************************************************************************)
(* Model of the Bedrock server backup script (src/main.py): the console    *)
(* save barrier (query_save_server), the manifest parser                   *)
(* (get_files_dictionary), the byte-bounded copier (write_backups) and the *)
(* script body that chains them and starts the upload.                     *)
(*                                                                         *)
(* Text is modelled as a sequence of one-character strings, so that        *)
(* splitting, stripping and integer conversion are computed character by   *)
(* character as Python computes them.                                      *)
(***************************************************************************)
EXTENDS Integers, Sequences, FiniteSets, TLC

VARIABLES
    pc,                 \* position of the script body (src/main.py:236-245)
    sent,               \* what has been written to the console, in order
    closed,             \* number of child.close() calls performed
    unread,             \* server output not yet read by expect
    buffer,             \* server output read by expect and not yet consumed
    manifest,           \* the (path, length) pairs the server reported
    query_result,       \* __main__'s query_result (child.after.decode())
    files_list,         \* __main__'s files_list (the ordered dict)
    i,                  \* write_backups: index of the entry being copied
    i_stream,           \* write_backups: the open live file and the read
                        \* position in it
    lines,              \* write_backups: the bytes read so far
    live,               \* the live directory: name -> bytes
    staged,             \* the staging directory: name -> bytes
    uploaded,           \* rclone_upload has been started
    outcome,            \* the exception that ended the run, or NoException
    server_ops,         \* number of writes the server made after the barrier
    opened,             \* per copied entry: the live bytes seen when opened
    shrunk,             \* entries whose live file shrank while it was read
    acks,               \* the patterns the expects have matched, in order
    outside,            \* files outside both directories: path -> bytes
    dirs,               \* the directories that exist, as absolute paths
    run,                \* which run of write_backups over the manifest this is
    first               \* what the first run of write_backups left behind

vars == <<pc, sent, closed, unread, buffer, manifest, query_result,
          files_list, i, i_stream, lines, live, staged, uploaded, outcome,
          server_ops, opened, shrunk, acks, outside, dirs, run, first>>

----------------------------------------------------------------------------
(* Bounds of the model *)

MaxPairs == 2
MaxLenVal == 10
MaxTokens == 2
MaxFileLen == 2
MaxServerOps == 1

----------------------------------------------------------------------------
(* Text helpers: Python str operations on sequences of characters *)

NL == "\n"

Whitespace == {" ", "\n", "\r", "\t"}

Digits == <<"0", "1", "2", "3", "4", "5", "6", "7", "8", "9">>

IsDigit(c) == \E d \in 1..10 : Digits[d] = c

DigitVal(c) == (CHOOSE d \in 1..10 : Digits[d] = c) - 1

\* s[k:] with k counted from 1
Drop(s, k) == SubSeq(s, k, Len(s))

OccursAt(s, pat, k) ==
    /\ k + Len(pat) - 1 <= Len(s)
    /\ SubSeq(s, k, k + Len(pat) - 1) = pat

\* the least position of pat in s from k on, 0 when absent
RECURSIVE FindFrom(_, _, _)
FindFrom(s, pat, k) ==
    IF k + Len(pat) - 1 > Len(s) THEN 0
    ELSE IF OccursAt(s, pat, k) THEN k
    ELSE FindFrom(s, pat, k + 1)

\* str.find: the least position of pat in s, 0 when absent
Find(s, pat) == FindFrom(s, pat, 1)

\* the pieces of s from position from on, with the search for the next sep
\* at position k
RECURSIVE SplitFrom(_, _, _, _)
SplitFrom(s, sep, k, from) ==
    IF k + Len(sep) - 1 > Len(s) THEN <<SubSeq(s, from, Len(s))>>
    ELSE IF SubSeq(s, k, k + Len(sep) - 1) = sep
    THEN <<SubSeq(s, from, k - 1)>>
            \o SplitFrom(s, sep, k + Len(sep), k + Len(sep))
    ELSE SplitFrom(s, sep, k + 1, from)

\* str.split(sep) for a non-empty separator
Split(s, sep) == SplitFrom(s, sep, 1, 1)

\* str.rstrip()
RECURSIVE RStrip(_)
RStrip(s) ==
    IF s # <<>> /\ s[Len(s)] \in Whitespace
    THEN RStrip(SubSeq(s, 1, Len(s) - 1))
    ELSE s

\* str.lstrip()
RECURSIVE LStrip(_)
LStrip(s) ==
    IF s # <<>> /\ s[1] \in Whitespace THEN LStrip(Tail(s)) ELSE s

RECURSIVE DigitsValue(_)
DigitsValue(s) ==
    IF s = <<>> THEN 0
    ELSE 10 * DigitsValue(SubSeq(s, 1, Len(s) - 1)) + DigitVal(s[Len(s)])

\* int(text): surrounding whitespace and one sign are accepted, then
\* at least one decimal digit and nothing else; otherwise ValueError
PyInt(text) ==
    LET t == RStrip(LStrip(text))
        signed == t # <<>> /\ t[1] \in {"+", "-"}
        body == IF signed THEN Tail(t) ELSE t
        ok == body # <<>> /\ \A k \in 1..Len(body) : IsDigit(body[k])
        mag == IF ok THEN DigitsValue(body) ELSE 0
    IN  [ok |-> ok,
         val |-> IF signed /\ t[1] = "-" THEN 0 - mag ELSE mag]

\* str(n) for n >= 0
RECURSIVE Dec(_)
Dec(n) ==
    IF n < 10 THEN <<Digits[n + 1]>>
    ELSE Dec(n \div 10) \o <<Digits[(n % 10) + 1]>>

\* sep.join(parts)
RECURSIVE Join(_, _)
Join(parts, sep) ==
    IF parts = <<>> THEN <<>>
    ELSE IF Len(parts) = 1 THEN parts[1]
    ELSE parts[1] \o sep \o Join(Tail(parts), sep)

Colon == <<":">>

CommaSpace == <<",", " ">>

\* all sequences over S of length lo..hi
SeqsOf(S, lo, hi) == UNION {[1..n -> S] : n \in lo..hi}

----------------------------------------------------------------------------
(* Exceptions *)

NoException == [exc |-> "None", searcher |-> <<>>, line |-> 0]

\* an exception of type e raised at source line ln; searcher is the pattern
\* list a pexpect TIMEOUT/EOF carries in its message
Raise(e, ln, pats) == [exc |-> e, searcher |-> pats, line |-> ln]

----------------------------------------------------------------------------
(* The manifest wire format, as the server writes it *)

\* first line of the server's answer to 'save query'
Header == <<"D", "a", "t", "a", " ", "s">>

Token(pair) == pair[1] \o Colon \o Dec(pair[2])

Format(pairs) ==
    Header \o <<NL>> \o
    Join([k \in 1..Len(pairs) |-> Token(pairs[k])], CommaSpace)

----------------------------------------------------------------------------
(* get_files_dictionary *)

\* a variant of line 160 that keeps the value a name already has
DictSetKeepFirst(d, name, value) ==
    IF \E k \in 1..Len(d) : d[k][1] = name THEN d
    ELSE Append(d, <<name, value>>)

\* dict[name] = value on an insertion-ordered dict held as a sequence of
\* <<name, value>>: an existing key keeps its place and takes the new value
DictSet(d, name, value) ==
    IF \E k \in 1..Len(d) : d[k][1] = name
    THEN [k \in 1..Len(d) |-> IF d[k][1] = name THEN <<name, value>> ELSE d[k]]
    ELSE Append(d, <<name, value>>)

\* the for loop of lines 159-160 over the zipped lists, from position k
RECURSIVE FillDict(_, _, _, _)
FillDict(names, bytes, k, d) ==
    IF k > Len(names) THEN [exc |-> NoException, value |-> d]
    ELSE LET n == PyInt(bytes[k])
         IN  IF ~n.ok THEN [exc |-> Raise("ValueError", 160, <<>>),
                            value |-> <<>>]
             ELSE FillDict(names, bytes, k + 1, DictSet(d, names[k], n.val))

\* a variant of line 154 that splits on ',' alone
SplitTokensOnComma(files) == Split(files, <<",">>)

\* line 154: files.split(", ")
SplitTokens(files) == Split(files, CommaSpace)

\* a variant of get_files_dictionary that leaves out the tokens without ':'
\* and returns the mapping of the others
get_files_dictionary_skipping(text) ==
    LET text_lines == Split(text, <<NL>>)
    IN  IF Len(text_lines) < 2
        THEN [exc |-> Raise("IndexError", 153, <<>>), value |-> <<>>]
        ELSE
        LET file_list ==
                SelectSeq(SplitTokens(text_lines[2]),
                          LAMBDA t : Find(t, Colon) # 0)
            parts == [k \in 1..Len(file_list) |-> Split(file_list[k], Colon)]
        IN  FillDict([k \in 1..Len(file_list) |-> parts[k][1]],
                     [k \in 1..Len(file_list) |-> RStrip(parts[k][2])],
                     1, <<>>)

get_files_dictionary(text) ==
    LET text_lines == Split(text, <<NL>>)
    IN  IF Len(text_lines) < 2
        THEN [exc |-> Raise("IndexError", 153, <<>>), value |-> <<>>]
        ELSE
        LET files == text_lines[2]
            file_list == SplitTokens(files)
            parts == [k \in 1..Len(file_list) |-> Split(file_list[k], Colon)]
            file_name_list == [k \in 1..Len(file_list) |-> parts[k][1]]
        IN  IF \E k \in 1..Len(file_list) : Len(parts[k]) < 2
            THEN [exc |-> Raise("IndexError", 157, <<>>), value |-> <<>>]
            ELSE
            LET file_name_byte ==
                    [k \in 1..Len(file_list) |-> RStrip(parts[k][2])]
            IN  FillDict(file_name_list, file_name_byte, 1, <<>>)

----------------------------------------------------------------------------
(* The console: commands, patterns and pexpect's expect *)

SaveHold == "save hold"

SaveQuery == "save query"

SaveResume == "save resume"

ControlP == "^P"

ControlQ == "^Q"

HoldPatterns == <<"Saving...", "The command is already running">>

QueryPatterns == <<"Data .+">>

\* a variant of line 130 that expects the patterns of line 123 again
ResumePatternsOfHold == HoldPatterns

ResumePatterns == <<"Changes to the level are resumed.",
                    "A previous save has not been completed.">>

\* the exceptions expect raises when no pattern matches
ExpectErrors == {"TIMEOUT", "EOF"}

DataPrefix == <<"D", "a", "t", "a", " ">>

\* re.search of 'Data .+' (pexpect compiles with DOTALL, '.+' is greedy) in
\* the text read so far: the match runs from the first 'Data ' to the end of
\* what has been read; <<>> when there is no match yet
SearchData(buf) ==
    LET k == Find(buf, DataPrefix)
    IN  IF k # 0 /\ k + Len(DataPrefix) <= Len(buf) THEN Drop(buf, k) ELSE <<>>

----------------------------------------------------------------------------
(* The live directory and the server that owns it *)

FileOrder == << <<"a">>, <<"b">> >>

FileNames == {FileOrder[k] : k \in 1..Len(FileOrder)}

Bytes == {"x", "y"}

Contents == SeqsOf(Bytes, 0, MaxFileLen)

EmptyDir == [n \in {} |-> <<>>]

\* the directory dir with file n holding data
WithFile(dir, n, data) ==
    [m \in DOMAIN dir \cup {n} |-> IF m = n THEN data ELSE dir[m]]

\* the directory dir without file n
WithoutFile(dir, n) == [m \in DOMAIN dir \ {n} |-> dir[m]]

\* the pairs the server lists for the files it holds
Snapshot(dir) ==
    LET present == SelectSeq(FileOrder, LAMBDA n : n \in DOMAIN dir)
    IN  [k \in 1..Len(present) |-> <<present[k], Len(dir[present[k]])>>]

CopyPhase == pc \in {"open", "read", "write"}

\* the server appends one byte to a live file
ServerAppend ==
    /\ CopyPhase
    /\ server_ops < MaxServerOps
    /\ \E n \in DOMAIN live, b \in Bytes :
          live' = [live EXCEPT ![n] = Append(@, b)]
    /\ server_ops' = server_ops + 1
    /\ UNCHANGED <<pc, sent, closed, unread, buffer, manifest, query_result,
                   files_list, i, i_stream, lines, staged, uploaded, outcome,
                   opened, shrunk, acks,
                   outside, dirs, run, first>>

\* the server cuts a live file down to a shorter prefix
ServerTruncate ==
    /\ CopyPhase
    /\ server_ops < MaxServerOps
    /\ \E n \in DOMAIN live :
          /\ live[n] # <<>>
          /\ \E m \in 0..(Len(live[n]) - 1) :
                live' = [live EXCEPT ![n] = SubSeq(@, 1, m)]
          /\ shrunk' = IF pc = "read" /\ files_list[i][1] = n
                       THEN shrunk \cup {n} ELSE shrunk
    /\ server_ops' = server_ops + 1
    /\ UNCHANGED <<pc, sent, closed, unread, buffer, manifest, query_result,
                   files_list, i, i_stream, lines, staged, uploaded, outcome,
                   opened, acks,
                   outside, dirs, run, first>>

\* the server deletes a live file; a file that is open for reading keeps its
\* data until it is closed, which is the same as deleting it after the read
ServerRemove ==
    /\ CopyPhase
    /\ server_ops < MaxServerOps
    /\ \E n \in DOMAIN live :
          /\ ~(pc = "read" /\ files_list[i][1] = n)
          /\ live' = WithoutFile(live, n)
    /\ server_ops' = server_ops + 1
    /\ UNCHANGED <<pc, sent, closed, unread, buffer, manifest, query_result,
                   files_list, i, i_stream, lines, staged, uploaded, outcome,
                   opened, shrunk, acks,
                   outside, dirs, run, first>>

----------------------------------------------------------------------------
(* __main__ and query_save_server *)

\* the run ends with exception e
Abort(e) ==
    /\ outcome' = e
    /\ pc' = "exit"

\* line 238: pexpect.spawn(attach_command)
Spawn ==
    /\ pc = "spawn"
    /\ pc' = "send_hold"
    /\ UNCHANGED <<sent, closed, unread, buffer, manifest, query_result,
                   files_list, i, i_stream, lines, live, staged, uploaded,
                   outcome, server_ops, opened, shrunk, acks,
                   outside, dirs, run, first>>

\* line 238: the attach command cannot be started
SpawnFail ==
    /\ pc = "spawn"
    /\ Abort(Raise("ExceptionPexpect", 238, <<>>))
    /\ UNCHANGED <<sent, closed, unread, buffer, manifest, query_result,
                   files_list, i, i_stream, lines, live, staged, uploaded,
                   server_ops, opened, shrunk, acks,
                   outside, dirs, run, first>>

\* line 122: child.sendline("save hold")
SendHold ==
    /\ pc = "send_hold"
    /\ sent' = Append(sent, SaveHold)
    /\ pc' = "expect_hold"
    /\ UNCHANGED <<closed, unread, buffer, manifest, query_result,
                   files_list, i, i_stream, lines, live, staged, uploaded,
                   outcome, server_ops, opened, shrunk, acks,
                   outside, dirs, run, first>>

\* line 123: one of the hold acknowledgements arrives
ExpectHold ==
    /\ pc = "expect_hold"
    /\ \E k \in 1..Len(HoldPatterns) : acks' = Append(acks, HoldPatterns[k])
    /\ pc' = "send_query"
    /\ UNCHANGED <<sent, closed, unread, buffer, manifest, query_result,
                   files_list, i, i_stream, lines, live, staged, uploaded,
                   outcome, server_ops, opened, shrunk,
                   outside, dirs, run, first>>

\* a variant of line 123 that swallows the exception and goes on
ExpectHoldFailIgnored ==
    /\ pc = "expect_hold"
    /\ pc' = "send_query"
    /\ UNCHANGED <<sent, closed, unread, buffer, manifest, query_result,
                   files_list, i, i_stream, lines, live, staged, uploaded,
                   outcome, server_ops, opened, shrunk, acks,
                   outside, dirs, run, first>>

\* line 123: no acknowledgement arrives; the exception leaves
\* query_save_server and the script
ExpectHoldFail ==
    /\ pc = "expect_hold"
    /\ \E e \in ExpectErrors : Abort(Raise(e, 123, HoldPatterns))
    /\ UNCHANGED <<sent, closed, unread, buffer, manifest, query_result,
                   files_list, i, i_stream, lines, live, staged, uploaded,
                   server_ops, opened, shrunk, acks,
                   outside, dirs, run, first>>

\* line 125: child.sendline("save query"); the server answers with the
\* manifest of its files, or with nothing that holds 'Data ' when the save
\* is not ready
SendQuery ==
    /\ pc = "send_query"
    /\ sent' = Append(sent, SaveQuery)
    /\ \/ /\ manifest' = Snapshot(live)
          /\ unread' = Format(Snapshot(live))
       \/ /\ manifest' = manifest
          /\ unread' = <<>>
    /\ pc' = "expect_query"
    /\ UNCHANGED <<closed, buffer, query_result, files_list, i, i_stream,
                   lines, live, staged, uploaded, outcome, server_ops,
                   opened, shrunk, acks,
                   outside, dirs, run, first>>

\* lines 126-127: expect reads the next chunk of output that has arrived and
\* searches what it has read; on a match child.after is the matched text
ExpectQuery ==
    /\ pc = "expect_query"
    /\ unread # <<>>
    /\ \E k \in 1..Len(unread) :
          LET buf == buffer \o SubSeq(unread, 1, k)
              after == SearchData(buf)
          IN  /\ unread' = Drop(unread, k + 1)
              /\ IF after = <<>>
                 THEN /\ buffer' = buf
                      /\ UNCHANGED <<pc, query_result, acks>>
                 ELSE /\ buffer' = <<>>
                      /\ query_result' = after
                      /\ acks' = Append(acks, QueryPatterns[1])
                      /\ pc' = "send_resume"
    /\ UNCHANGED <<sent, closed, manifest, files_list, i, i_stream, lines,
                   live, staged, uploaded, outcome, server_ops, opened,
                   shrunk,
                   outside, dirs, run, first>>

\* a variant of line 126 that sends the command again after a timeout
ExpectQueryFailRetried ==
    /\ pc = "expect_query"
    /\ pc' = "send_query"
    /\ UNCHANGED <<sent, closed, unread, buffer, manifest, query_result,
                   files_list, i, i_stream, lines, live, staged, uploaded,
                   outcome, server_ops, opened, shrunk, acks,
                   outside, dirs, run, first>>

\* line 126: nothing that matches arrives in time
ExpectQueryFail ==
    /\ pc = "expect_query"
    /\ \E e \in ExpectErrors : Abort(Raise(e, 126, QueryPatterns))
    /\ UNCHANGED <<sent, closed, unread, buffer, manifest, query_result,
                   files_list, i, i_stream, lines, live, staged, uploaded,
                   server_ops, opened, shrunk, acks,
                   outside, dirs, run, first>>

\* line 129: child.sendline("save resume")
SendResume ==
    /\ pc = "send_resume"
    /\ sent' = Append(sent, SaveResume)
    /\ pc' = "expect_resume"
    /\ UNCHANGED <<closed, unread, buffer, manifest, query_result,
                   files_list, i, i_stream, lines, live, staged, uploaded,
                   outcome, server_ops, opened, shrunk, acks,
                   outside, dirs, run, first>>

\* line 130: one of the resume acknowledgements arrives
ExpectResume ==
    /\ pc = "expect_resume"
    /\ \E k \in 1..Len(ResumePatterns) :
          acks' = Append(acks, ResumePatterns[k])
    /\ pc' = "detach"
    /\ UNCHANGED <<sent, closed, unread, buffer, manifest, query_result,
                   files_list, i, i_stream, lines, live, staged, uploaded,
                   outcome, server_ops, opened, shrunk,
                   outside, dirs, run, first>>

\* a variant of line 130 that swallows the exception and goes on
ExpectResumeFailIgnored ==
    /\ pc = "expect_resume"
    /\ pc' = "detach"
    /\ UNCHANGED <<sent, closed, unread, buffer, manifest, query_result,
                   files_list, i, i_stream, lines, live, staged, uploaded,
                   outcome, server_ops, opened, shrunk, acks,
                   outside, dirs, run, first>>

\* line 130: no acknowledgement arrives
ExpectResumeFail ==
    /\ pc = "expect_resume"
    /\ \E e \in ExpectErrors : Abort(Raise(e, 130, ResumePatterns))
    /\ UNCHANGED <<sent, closed, unread, buffer, manifest, query_result,
                   files_list, i, i_stream, lines, live, staged, uploaded,
                   server_ops, opened, shrunk, acks,
                   outside, dirs, run, first>>

\* lines 132-137: control-p, control-q, child.close(), return
Detach ==
    /\ pc = "detach"
    /\ sent' = sent \o <<ControlP, ControlQ>>
    /\ closed' = closed + 1
    /\ pc' = "parse"
    /\ UNCHANGED <<unread, buffer, manifest, query_result, files_list, i,
                   i_stream, lines, live, staged, uploaded, outcome,
                   server_ops, opened, shrunk, acks,
                   outside, dirs, run, first>>

\* line 240: files_list = get_files_dictionary(query_result)
Parse ==
    /\ pc = "parse"
    /\ LET r == get_files_dictionary(query_result)
       IN  IF r.exc = NoException
           THEN /\ files_list' = r.value
                /\ pc' = "open"
                /\ outcome' = outcome
           ELSE /\ Abort(r.exc)
                /\ files_list' = files_list
    /\ UNCHANGED <<sent, closed, unread, buffer, manifest, query_result, i,
                   i_stream, lines, live, staged, uploaded, server_ops,
                   opened, shrunk, acks,
                   outside, dirs, run, first>>

----------------------------------------------------------------------------
(* write_backups *)

file_name == files_list[i][1]

read_bytes == files_list[i][2]

Slash == <<"/">>

\* _Constants().backup_path, the staging root (line 24, shortened)
backup_path == <<"/", "s", "/">>

\* the global path of line 237, the live root (shortened)
worlds_path == <<"/", "w">>

\* os.path.join(base, name): an absolute name replaces the base
os_path_join(base, name) ==
    IF name # <<>> /\ name[1] = "/" THEN name
    ELSE IF base = <<>> \/ base[Len(base)] = "/" THEN base \o name
    ELSE base \o Slash \o name

\* line 201
save_file_path == os_path_join(backup_path, file_name)

\* line 204
read_file_path == os_path_join(worlds_path, file_name)

\* lines 184-185: "/".join(item_path.split("/")[:-1])
directory_path(item_path) ==
    LET parts == Split(item_path, Slash)
    IN  Join(SubSeq(parts, 1, Len(parts) - 1), Slash)

\* absolute paths are held as the sequence of their components
RootDir == <<>>

LiveRoot == << <<"w">> >>

StagingRoot == << <<"s">> >>

Parent(at) == IF at = <<>> THEN <<>> ELSE SubSeq(at, 1, Len(at) - 1)

IsUnder(at, root) ==
    /\ Len(at) > Len(root)
    /\ SubSeq(at, 1, Len(root)) = root

\* where an absolute path lies: in the live directory, in the staging
\* directory or outside both, and its name there
Place(at) ==
    IF IsUnder(at, LiveRoot)
    THEN [root |-> "live",
          name |-> Join(SubSeq(at, Len(LiveRoot) + 1, Len(at)), Slash)]
    ELSE IF IsUnder(at, StagingRoot)
    THEN [root |-> "staged",
          name |-> Join(SubSeq(at, Len(StagingRoot) + 1, Len(at)), Slash)]
    ELSE [root |-> "outside", name |-> Join(at, Slash)]

FilesOf(root) ==
    IF root = "live" THEN live
    ELSE IF root = "staged" THEN staged
    ELSE outside

IsFile(at) ==
    \E to \in {Place(at)} : to.name \in DOMAIN FilesOf(to.root)

\* the kernel's walk along the components of a path: '' and '.' stay, '..'
\* goes up, and what is walked through has to be a directory of ds
RECURSIVE WalkPath(_, _, _)
WalkPath(comps, at, ds) ==
    IF comps = <<>> THEN [ok |-> TRUE, at |-> at]
    ELSE IF at \notin ds THEN [ok |-> FALSE, at |-> at]
    ELSE LET c == Head(comps)
         IN  IF c = <<>> \/ c = <<".">>
             THEN WalkPath(Tail(comps), at, ds)
             ELSE IF c = <<".", ".">>
             THEN WalkPath(Tail(comps), Parent(at), ds)
             ELSE WalkPath(Tail(comps), Append(at, c), ds)

\* the file a path names
Resolve(file_path, ds) == WalkPath(Split(file_path, Slash), RootDir, ds)

\* a variant of line 189 without exist_ok: a directory that exists is an
\* error
RECURSIVE makedirs_no_exist_ok(_, _, _)
makedirs_no_exist_ok(comps, at, ds) ==
    IF comps = <<>> THEN [ok |-> at \notin dirs, dirs |-> ds]
    ELSE LET c == Head(comps)
         IN  IF c = <<>> \/ c = <<".">>
             THEN makedirs_no_exist_ok(Tail(comps), at, ds)
             ELSE IF c = <<".", ".">>
             THEN makedirs_no_exist_ok(Tail(comps), Parent(at), ds)
             ELSE IF Append(at, c) \in ds
             THEN makedirs_no_exist_ok(Tail(comps), Append(at, c), ds)
             ELSE IF IsFile(Append(at, c))
             THEN [ok |-> FALSE, dirs |-> ds]
             ELSE makedirs_no_exist_ok(Tail(comps), Append(at, c),
                                       ds \cup {Append(at, c)})

\* line 189: os.makedirs(directory_path, exist_ok=True) along the components
\* of the path: every missing directory is made, a directory that exists is
\* left alone, a file in the way is an error
RECURSIVE makedirs(_, _, _)
makedirs(comps, at, ds) ==
    IF comps = <<>> THEN [ok |-> TRUE, dirs |-> ds]
    ELSE LET c == Head(comps)
         IN  IF c = <<>> \/ c = <<".">>
             THEN makedirs(Tail(comps), at, ds)
             ELSE IF c = <<".", ".">>
             THEN makedirs(Tail(comps), Parent(at), ds)
             ELSE IF Append(at, c) \in ds
             THEN makedirs(Tail(comps), Append(at, c), ds)
             ELSE IF IsFile(Append(at, c))
             THEN [ok |-> FALSE, dirs |-> ds]
             ELSE makedirs(Tail(comps), Append(at, c),
                           ds \cup {Append(at, c)})

\* lines 165-189 with file_name_included: os.makedirs('') is an error
create_directory(item_path) ==
    LET made == {IF d = <<>>
                 THEN [ok |-> FALSE, dirs |-> dirs]
                 ELSE makedirs(Split(d, Slash), RootDir, dirs)
                 : d \in {directory_path(item_path)}}
    IN  CHOOSE m \in made : TRUE

\* lines 201-202: the directory of the staged file cannot be made
CreateDirectoryFail ==
    /\ pc = "open"
    /\ \E made \in {create_directory(save_file_path)} :
          ~made.ok /\ dirs' = made.dirs
    /\ Abort(Raise(IF directory_path(save_file_path) = <<>>
                   THEN "FileNotFoundError" ELSE "FileExistsError",
                   189, <<>>))
    /\ UNCHANGED <<sent, closed, unread, buffer, manifest, query_result,
                   files_list, i, i_stream, lines, live, staged, uploaded,
                   server_ops, opened, shrunk, acks, outside, run, first>>

\* lines 199-207: the next entry; its staging directory is made and its live
\* file is opened for reading
OpenLive ==
    /\ pc = "open"
    /\ \E made \in {create_directory(save_file_path)} :
       \E from \in {Resolve(read_file_path, made.dirs)} :
           /\ made.ok
           /\ dirs' = made.dirs
           /\ from.ok
           /\ \E file \in {Place(from.at)} :
                 /\ file.name \in DOMAIN FilesOf(file.root)
                 /\ opened' = WithFile(opened, file_name,
                                       FilesOf(file.root)[file.name])
                 /\ i_stream' = [file |-> file, pos |-> 0]
    /\ lines' = <<>>
    /\ pc' = "read"
    /\ UNCHANGED <<sent, closed, unread, buffer, manifest, query_result,
                   files_list, i, live, staged, uploaded, outcome,
                   server_ops, shrunk, acks, outside, run, first>>

\* a variant of line 207 that skips an entry whose live file does not exist
OpenLiveFailSkipped ==
    /\ pc = "open"
    /\ \E made \in {create_directory(save_file_path)} :
       \E from \in {Resolve(read_file_path, made.dirs)} :
           /\ made.ok
           /\ dirs' = made.dirs
           /\ ~(from.ok /\ IsFile(from.at))
    /\ i' = i + 1
    /\ pc' = IF i + 1 > Len(files_list) THEN "rclone_upload" ELSE "open"
    /\ UNCHANGED <<sent, closed, unread, buffer, manifest, query_result,
                   files_list, i_stream, lines, live, staged, uploaded,
                   outcome, server_ops, opened, shrunk, acks, outside, run,
                   first>>

\* line 207: the live file does not exist, or is a directory
OpenLiveFail ==
    /\ pc = "open"
    /\ \E made \in {create_directory(save_file_path)} :
       \E from \in {Resolve(read_file_path, made.dirs)} :
           /\ made.ok
           /\ dirs' = made.dirs
           /\ ~(from.ok /\ IsFile(from.at))
           /\ Abort(Raise(IF from.ok /\ from.at \in made.dirs
                          THEN "IsADirectoryError" ELSE "FileNotFoundError",
                          207, <<>>))
    /\ UNCHANGED <<sent, closed, unread, buffer, manifest, query_result,
                   files_list, i, i_stream, lines, live, staged, uploaded,
                   server_ops, opened, shrunk, acks, outside, run, first>>

\* where the staged file goes
SaveAt == Resolve(save_file_path, dirs).at

\* the bytes of the open file from the read position on
Available ==
    Drop(FilesOf(i_stream.file.root)[i_stream.file.name], i_stream.pos + 1)

\* a variant of line 208 that reads without a size: i_stream.read()
WantedWholeFile == Len(Available)

\* how many more bytes read(read_bytes) asks for; a negative size asks for
\* everything up to the end of the file
Wanted ==
    IF read_bytes < 0 THEN Len(Available) ELSE read_bytes - Len(lines)

\* line 208: i_stream.read(read_bytes) takes some of the bytes it still wants
ReadSome ==
    /\ pc = "read"
    /\ \E rest \in {Available}, want \in {Wanted} :
          /\ want > 0
          /\ \E k \in 1..Len(rest) :
                /\ k <= want
                /\ lines' = lines \o SubSeq(rest, 1, k)
                /\ i_stream' = [i_stream EXCEPT !.pos = @ + k]
    /\ UNCHANGED <<pc, sent, closed, unread, buffer, manifest, query_result,
                   files_list, i, live, staged, uploaded, outcome,
                   server_ops, opened, shrunk, acks,
                   outside, dirs, run, first>>

\* line 208: read returns, with all the bytes it wanted or at end of file
ReadReturn ==
    /\ pc = "read"
    /\ Wanted <= 0 \/ Available = <<>>
    /\ pc' = "write"
    /\ UNCHANGED <<sent, closed, unread, buffer, manifest, query_result,
                   files_list, i, i_stream, lines, live, staged, uploaded,
                   outcome, server_ops, opened, shrunk, acks,
                   outside, dirs, run, first>>

\* lines 210-211: the file at save_file_path is created or truncated and
\* written, wherever that path leads; the loop goes on to the next entry or
\* write_backups returns
WriteStaged ==
    /\ pc = "write"
    /\ \E at \in {SaveAt} :
       \E to \in {Place(at)} :
           /\ at \notin dirs
           /\ staged' = IF to.root = "staged"
                        THEN WithFile(staged, to.name, lines) ELSE staged
           /\ live' = IF to.root = "live"
                      THEN WithFile(live, to.name, lines) ELSE live
           /\ outside' = IF to.root = "outside"
                         THEN WithFile(outside, to.name, lines) ELSE outside
    /\ i' = i + 1
    /\ pc' = IF i + 1 > Len(files_list) THEN "rclone_upload" ELSE "open"
    /\ UNCHANGED <<sent, closed, unread, buffer, manifest, query_result,
                   files_list, i_stream, lines, uploaded, outcome,
                   server_ops, opened, shrunk, acks, dirs, run, first>>

\* the directory dir as it is, or after the server appended a byte to one
\* of its files
Grown(dir) ==
    {dir} \cup {[dir EXCEPT ![n] = Append(@, b)] : n \in DOMAIN dir, b \in Bytes}

\* write_backups is called again with the same files_dict, after the server
\* may have appended to a live file
SecondRun ==
    /\ pc = "rclone_upload"
    /\ run = 1
    /\ run' = 2
    /\ live' \in Grown(live)
    /\ first' = [staged |-> staged, dirs |-> dirs, opened |-> opened]
    /\ opened' = EmptyDir
    /\ i' = 1
    /\ pc' = "open"
    /\ UNCHANGED <<sent, closed, unread, buffer, manifest, query_result,
                   files_list, i_stream, lines, staged, uploaded, outcome,
                   server_ops, shrunk, acks, outside, dirs>>

\* line 243: rclone_upload() syncs the staging directory; its result is not
\* looked at
rclone_upload ==
    /\ pc = "rclone_upload"
    /\ uploaded' = TRUE
    /\ pc' = "log_done"
    /\ UNCHANGED <<sent, closed, unread, buffer, manifest, query_result,
                   files_list, i, i_stream, lines, live, staged, outcome,
                   server_ops, opened, shrunk, acks,
                   outside, dirs, run, first>>

\* line 219: the rclone configuration cannot be read
rclone_uploadFail ==
    /\ pc = "rclone_upload"
    /\ Abort(Raise("FileNotFoundError", 219, <<>>))
    /\ UNCHANGED <<sent, closed, unread, buffer, manifest, query_result,
                   files_list, i, i_stream, lines, live, staged, uploaded,
                   server_ops, opened, shrunk, acks,
                   outside, dirs, run, first>>

\* line 245: Logging.log_to_screen("Done")
LogDone ==
    /\ pc = "log_done"
    /\ pc' = "exit"
    /\ UNCHANGED <<sent, closed, unread, buffer, manifest, query_result,
                   files_list, i, i_stream, lines, live, staged, uploaded,
                   outcome, server_ops, opened, shrunk, acks,
                   outside, dirs, run, first>>

----------------------------------------------------------------------------
(* Specifications *)

\* no file is open
NoStream == [file |-> [root |-> "outside", name |-> <<>>], pos |-> 0]

NoFirstRun == [staged |-> EmptyDir, dirs |-> {}, opened |-> EmptyDir]

\* the state before line 236 for a given position, live directory and
\* captured text
Start(p, dir, pairs, text) ==
    /\ pc = p
    /\ sent = <<>>
    /\ closed = 0
    /\ unread = <<>>
    /\ buffer = <<>>
    /\ manifest = pairs
    /\ query_result = text
    /\ files_list = <<>>
    /\ i = 1
    /\ i_stream = NoStream
    /\ lines = <<>>
    /\ live = dir
    /\ staged = EmptyDir
    /\ uploaded = FALSE
    /\ outcome = NoException
    /\ server_ops = 0
    /\ opened = EmptyDir
    /\ shrunk = {}
    /\ acks = <<>>
    /\ outside = EmptyDir
    /\ dirs = {RootDir, LiveRoot}
    /\ run = 1
    /\ first = NoFirstRun

\* a run of the script against a server that holds any live directory
Init ==
    \E S \in SUBSET FileNames : \E dir \in [S -> Contents] :
        Start("spawn", dir, <<>>, <<>>)

Next ==
    \/ Spawn
    \/ SpawnFail
    \/ SendHold
    \/ ExpectHold
    \/ ExpectHoldFail
    \/ SendQuery
    \/ ExpectQuery
    \/ ExpectQueryFail
    \/ SendResume
    \/ ExpectResume
    \/ ExpectResumeFail
    \/ Detach
    \/ Parse
    \/ OpenLive
    \/ OpenLiveFail
    \/ ReadSome
    \/ ReadReturn
    \/ WriteStaged
    \/ rclone_upload
    \/ rclone_uploadFail
    \/ LogDone
    \/ ServerAppend
    \/ ServerTruncate
    \/ ServerRemove

Spec == Init /\ [][Next]_vars

\* get_files_dictionary alone, on the text of a manifest the server formats
\* and on text built from arbitrary tokens

\* paths of a manifest: plain ones and ones that hold ',', ' ' or ', '
Paths ==
    { <<"a">>, <<"b">>, <<"a", ",">>, <<" ", "a">>, <<"a", " ", "b">>,
      <<",", " ">>, <<"a", ",", " ", "b">> }

LenVals == {0, 1, MaxLenVal}

FormattedInputs == SeqsOf(Paths \X LenVals, 1, MaxPairs)

\* what a token holds before its first ':'
RawNames == { <<>>, <<"a">>, <<"b">> }

\* what a token holds after its first ':'
RawLengthTexts ==
    { <<>>, <<"1">>, <<"1", "2">>, <<"1", " ">>, <<" ", "1">>, <<"a">>,
      <<"-", "5">>, <<"5", ":", "6">> }

\* tokens with and without a ':'
RawTokens ==
    {n \o t : n \in RawNames,
              t \in {<<>>} \cup {Colon \o x : x \in RawLengthTexts}}

RawInputs == SeqsOf(RawTokens, 1, MaxTokens)

InitParse ==
    \/ \E pairs \in FormattedInputs :
          Start("parse", EmptyDir, pairs, Format(pairs))
    \/ \E toks \in RawInputs :
          Start("parse", EmptyDir, <<>>,
                Header \o <<NL>> \o Join(toks, CommaSpace))
    \/ Start("parse", EmptyDir, <<>>, Header)

NextParse == Parse

SpecParse == InitParse /\ [][NextParse]_vars

\* write_backups alone, run twice over the same files_dict, on entries with
\* plain, nested, absolute and climbing paths

CopyNames ==
    { <<"a">>, <<"d", "/", "a">>, <<"/", "w", "/", "a">>,
      <<".", ".", "/", "x">>, <<"/", "x">>, <<"d">> }

CopyLens == {-1, 1, MaxFileLen}

\* a dict holds each name once
CopyInputs ==
    {d \in SeqsOf(CopyNames \X CopyLens, 1, MaxPairs) :
        \A j, k \in 1..Len(d) : j # k => d[j][1] # d[k][1]}

\* the live directory /w with the files a and d/a
LiveTree ==
    WithFile(WithFile(EmptyDir, <<"a">>, <<"x", "y">>),
             <<"d", "/", "a">>, <<"y">>)

\* the file /x next to the two directories
OutsideTree == WithFile(EmptyDir, <<"x">>, <<"y", "x">>)

InitCopy ==
    \E d \in CopyInputs :
        /\ pc = "open"
        /\ sent = <<>>
        /\ closed = 0
        /\ unread = <<>>
        /\ buffer = <<>>
        /\ manifest = <<>>
        /\ query_result = <<>>
        /\ files_list = d
        /\ i = 1
        /\ i_stream = NoStream
        /\ lines = <<>>
        /\ live = LiveTree
        /\ staged = EmptyDir
        /\ uploaded = FALSE
        /\ outcome = NoException
        /\ server_ops = 0
        /\ opened = EmptyDir
        /\ shrunk = {}
        /\ acks = <<>>
        /\ outside = OutsideTree
        /\ dirs = {RootDir, LiveRoot, Append(LiveRoot, <<"d">>)}
        /\ run = 1
        /\ first = NoFirstRun

NextCopy ==
    \/ CreateDirectoryFail
    \/ OpenLive
    \/ OpenLiveFail
    \/ ReadSome
    \/ ReadReturn
    \/ WriteStaged
    \/ SecondRun

SpecCopy == InitCopy /\ [][NextCopy]_vars

----------------------------------------------------------------------------
(* Properties *)

InSent(c) == \E k \in 1..Len(sent) : sent[k] = c

Count(c) == Cardinality({k \in 1..Len(sent) : sent[k] = c})

Ended == pc = "exit"

\* a console session was opened by the run
Attached == pc # "spawn" /\ outcome.exc # "ExceptionPexpect"

\* the length the parsed manifest gives for name n
LengthOf(n) ==
    LET k == CHOOSE j \in 1..Len(files_list) : files_list[j][1] = n
    IN  files_list[k][2]

PairSet(pairs) == {pairs[k] : k \in 1..Len(pairs)}

Contains(s, pat) == Find(s, pat) # 0

\* C1: in every run in which 'save hold' has been sent, 'save resume' has
\* been sent by the time the run ends, also when an expect timed out.
C1_ResumeBeforeEnd ==
    (Ended /\ InSent(SaveHold)) => InSent(SaveResume)

\* C2: on every exit path of a run that opened a console session, the
\* detach (control-p, control-q, close) has been performed exactly once.
C2_DetachOnEveryExit ==
    (Ended /\ Attached) =>
        /\ closed = 1
        /\ Count(ControlP) = 1
        /\ Count(ControlQ) = 1

\* C3: a staged file whose live file held at least the manifest length N
\* when it was opened, and did not shrink while it was read, holds exactly
\* the first N bytes of that live file, whatever the server appended.
C3_StagedIsPrefix ==
    \A n \in DOMAIN staged :
        (/\ LengthOf(n) >= 0
         /\ Len(opened[n]) >= LengthOf(n)
         /\ n \notin shrunk)
        => staged[n] = SubSeq(opened[n], 1, LengthOf(n))

\* C3 witness: a file was staged with its N >= 1 bytes although the server
\* appended to the live file after it had been opened.
C3_Witness ==
    \E n \in DOMAIN staged :
        /\ n \in DOMAIN live
        /\ Len(live[n]) > Len(opened[n])
        /\ LengthOf(n) >= 1
        /\ Len(opened[n]) >= LengthOf(n)
        /\ staged[n] = SubSeq(opened[n], 1, LengthOf(n))

\* C4: the copier never writes a staged file shorter than the length of its
\* manifest entry: a live file that holds fewer bytes ends the run with an
\* error instead.
C4_NoShortStagedFile ==
    \A n \in DOMAIN staged :
        LengthOf(n) >= 0 => Len(staged[n]) = LengthOf(n)

BarrierOrder == <<SaveHold, SaveQuery, SaveResume>>

\* C6: the console commands are sent in program order, hold then query then
\* resume, and 'save query' is sent only after the hold expect has matched
\* one of its acknowledgements.
C6_StagesInOrder ==
    /\ \A k \in 1..Len(sent) :
          IF k <= 3 THEN sent[k] = BarrierOrder[k]
          ELSE sent[k] \notin PairSet(BarrierOrder)
    /\ InSent(SaveQuery) =>
          /\ acks # <<>>
          /\ acks[1] \in PairSet(HoldPatterns)

\* C6 witness: all three commands have been sent.
C6_Witness ==
    /\ Len(sent) = 3
    /\ sent[3] = SaveResume
    /\ Len(acks) = 2

\* a manifest as C7 words it: at least one pair, distinct paths without ':',
\* non-negative lengths
WellFormed(pairs) ==
    /\ Len(pairs) >= 1
    /\ \A j, k \in 1..Len(pairs) : j # k => pairs[j][1] # pairs[k][1]
    /\ \A k \in 1..Len(pairs) :
          /\ ~Contains(pairs[k][1], Colon)
          /\ pairs[k][2] >= 0

Parsed == pc # "parse"

\* get_files_dictionary returned exactly the pairs of the manifest
ReturnsManifest ==
    /\ outcome = NoException
    /\ Len(files_list) = Len(manifest)
    /\ PairSet(files_list) = PairSet(manifest)

\* C7 as stated: the text of every well-formed manifest parses to exactly
\* its (path, length) pairs.
C7_RoundTrip ==
    (Parsed /\ WellFormed(manifest) /\ query_result = Format(manifest))
    => ReturnsManifest

\* C7 amended: the text of every well-formed manifest none of whose paths
\* holds the separator ', ' parses to exactly its (path, length) pairs.
C7_RoundTripNoSeparator ==
    (/\ Parsed
     /\ WellFormed(manifest)
     /\ \A k \in 1..Len(manifest) : ~Contains(manifest[k][1], CommaSpace)
     /\ query_result = Format(manifest))
    => ReturnsManifest

\* C7 witness: a manifest of two pairs, one with a two-digit length and one
\* with a comma in its path, has been parsed.
C7_Witness ==
    /\ Parsed
    /\ Len(manifest) = 2
    /\ WellFormed(manifest)
    /\ \A k \in 1..2 : ~Contains(manifest[k][1], CommaSpace)
    /\ \E k \in 1..2 : Contains(manifest[k][1], <<",">>)
    /\ \E k \in 1..2 : manifest[k][2] >= 10
    /\ query_result = Format(manifest)
    /\ ReturnsManifest

\* the tokens of the second line of text
TokensOf(text) == Split(Split(text, <<NL>>)[2], CommaSpace)

HasTwoLines(text) == Len(Split(text, <<NL>>)) >= 2

\* C8: when a token of the manifest line, at any position, has no ':', the
\* parse ends with an error and the caller gets no mapping.
C8_MissingColonFails ==
    (/\ Parsed
     /\ HasTwoLines(query_result)
     /\ \E k \in 1..Len(TokensOf(query_result)) :
           ~Contains(TokensOf(query_result)[k], Colon))
    => /\ outcome.exc = "IndexError"
       /\ Ended
       /\ files_list = <<>>

\* C8 witness: the first token is a valid pair, the second has no ':', and
\* the parse has failed.
C8_Witness ==
    /\ Ended
    /\ HasTwoLines(query_result)
    /\ Len(TokensOf(query_result)) = 2
    /\ get_files_dictionary(
          Header \o <<NL>> \o TokensOf(query_result)[1]).exc = NoException
    /\ ~Contains(TokensOf(query_result)[2], Colon)
    /\ outcome.exc = "IndexError"

\* the patterns expected after command c
PatternsAfter(c) ==
    IF c = SaveHold THEN HoldPatterns
    ELSE IF c = SaveQuery THEN QueryPatterns
    ELSE ResumePatterns

\* C9: a timeout of an expect ends the run with an exception whose pattern
\* list is the one expected at the stage whose command was sent last, and
\* at no other stage, so that the outcome tells the stages apart.
C9_TimeoutNamesStage ==
    outcome.exc = "TIMEOUT" =>
        /\ Ended
        /\ sent # <<>>
        /\ {c \in PairSet(BarrierOrder) : PatternsAfter(c) = outcome.searcher}
              = {sent[Len(sent)]}

\* C9 witness: the expect after 'save resume' timed out.
C9_Witness ==
    /\ outcome.exc = "TIMEOUT"
    /\ sent # <<>>
    /\ sent[Len(sent)] = SaveResume
    /\ outcome.searcher = ResumePatterns

\* C10: the text captured at the query stage is the whole two-line answer of
\* the server, never a part of it.
C10_CaptureComplete ==
    query_result # <<>> => query_result = Format(manifest)

\* C11: write_backups never modifies the live directory: whatever path an
\* entry has, the step that creates or truncates the file at save_file_path
\* leaves the live directory and everything outside the staging root as it
\* was.
C11_WritesOnlyUnderStaging ==
    [][WriteStaged => (live' = live /\ outside' = outside)]_vars

\* C12: every length of the parsed mapping is a non-negative integer.
C12_LengthsNonNegative ==
    \A k \in 1..Len(files_list) : files_list[k][2] >= 0

\* what a token holds before and after its first ':'
BeforeColon(t) == SubSeq(t, 1, Find(t, Colon) - 1)

AfterColon(t) == Drop(t, Find(t, Colon) + 1)

\* C13: a token with more than one ':' has a length text that holds a ':',
\* so the parse of a line with such a token fails.
C13_SplitOnFirstColon ==
    (/\ Parsed
     /\ HasTwoLines(query_result)
     /\ \E k \in 1..Len(TokensOf(query_result)) :
           LET t == TokensOf(query_result)[k]
           IN  Contains(t, Colon) /\ Contains(AfterColon(t), Colon))
    => outcome # NoException

\* the last token of the line that has the name of token k
LastWithName(toks, k) ==
    CHOOSE j \in 1..Len(toks) :
        /\ BeforeColon(toks[j]) = BeforeColon(toks[k])
        /\ \A m \in (j + 1)..Len(toks) :
              BeforeColon(toks[m]) # BeforeColon(toks[k])

\* C14: after a successful parse every path of the line is held once in the
\* mapping, with the length of its last occurrence.
C14_LastOccurrenceWins ==
    (Parsed /\ outcome = NoException /\ HasTwoLines(query_result)) =>
        LET toks == TokensOf(query_result)
        IN  \A k \in 1..Len(toks) :
               /\ Cardinality({j \in 1..Len(files_list) :
                     files_list[j][1] = BeforeColon(toks[k])}) = 1
               /\ <<BeforeColon(toks[k]),
                    PyInt(RStrip(
                      Split(toks[LastWithName(toks, k)], Colon)[2])).val>>
                     \in PairSet(files_list)

\* C14 witness: a line of two tokens with the same path and different
\* lengths has been parsed to one entry.
C14_Witness ==
    /\ Parsed
    /\ outcome = NoException
    /\ HasTwoLines(query_result)
    /\ Len(TokensOf(query_result)) = 2
    /\ BeforeColon(TokensOf(query_result)[1])
          = BeforeColon(TokensOf(query_result)[2])
    /\ PyInt(AfterColon(TokensOf(query_result)[1])).val
          # PyInt(AfterColon(TokensOf(query_result)[2])).val
    /\ Len(files_list) = 1

\* the three commands of the barrier
BarrierCommands == {SaveHold, SaveQuery, SaveResume}

\* C15: each of 'save hold', 'save query' and 'save resume' is sent at most
\* once in a run.
C15_NoStageRetried ==
    \A c \in BarrierCommands : Count(c) <= 1

\* C15 witness: a run that ended without an exception has sent each command
\* once.
C15_Witness ==
    /\ Ended
    /\ outcome = NoException
    /\ \A c \in BarrierCommands : Count(c) = 1

\* C16: a live file is opened only after 'save resume' has been sent and
\* acknowledged and the console session has been closed.
C16_CopyAfterBarrier ==
    (pc \in {"read", "write"} \/ opened # EmptyDir \/ staged # EmptyDir) =>
        /\ InSent(SaveResume)
        /\ Len(acks) = 3
        /\ acks[3] \in PairSet(ResumePatterns)
        /\ closed = 1

\* C16 witness: a live file is open for reading.
C16_Witness ==
    /\ pc = "read"
    /\ InSent(SaveResume)
    /\ closed = 1

\* the first n bytes of data, all of it for a negative n
FirstBytes(data, n) ==
    IF n < 0 \/ n > Len(data) THEN data ELSE SubSeq(data, 1, n)

\* every live file the second run has opened had the first N bytes it had
\* when the first run opened it
SameLiveBytes ==
    \A n \in DOMAIN opened :
        /\ n \in DOMAIN first.opened
        /\ FirstBytes(opened[n], LengthOf(n))
              = FirstBytes(first.opened[n], LengthOf(n))

\* C17: a second run of write_backups over the same mapping, with the first
\* N bytes of each live file unchanged, raises no error and leaves the
\* staging tree as the first run left it.
C17_SecondRunSameTree ==
    (run = 2 /\ SameLiveBytes) =>
        /\ outcome = NoException
        /\ pc = "rclone_upload" =>
              /\ staged = first.staged
              /\ dirs = first.dirs

\* C17 witness: the second run has ended over a staging tree with a nested
\* file, after the server had appended to a live file.
C17_Witness ==
    /\ run = 2
    /\ pc = "rclone_upload"
    /\ SameLiveBytes
    /\ <<"d", "/", "a">> \in DOMAIN staged
    /\ Append(StagingRoot, <<"d">>) \in dirs
    /\ \E n \in DOMAIN live : Len(live[n]) > Len(LiveTree[n])
    /\ staged = first.staged

====
